---- MODULE Spec2Model ----
(***************************************************************************)
(* A model of src/maze.js: the depth-first maze generator, the conversion  *)
(* of the cell lattice to the tile grid, the DDA ray caster and the        *)
(* movement integrator.                                                    *)
(*                                                                         *)
(* Arrays are functions over 0-based index ranges, as in the source.       *)
(* Real numbers are fixed-point integers: positions count sixteenths of a  *)
(* tile, angles count eighths of a turn (45 degrees), cosines and sines    *)
(* count quarters, ray distances count 1/48 of a tile, frame deltas count  *)
(* quarters of a second.                                                   *)
(***************************************************************************)
EXTENDS Integers, Sequences, FiniteSets, TLC

VARIABLES
    width, height,   \* the arguments of generateMaze
    maze,            \* the cell lattice under construction (maze[y][x])
    stack,           \* the call stack of carve: frames [x, y, dirs]
    arg,             \* the arguments of the carve call being entered
    pc,              \* where initGame/generateMaze stands
    grid,            \* the tile grid (grid[y][x]), 1 = wall, 0 = open
    exitX, exitY,    \* the exit landmark
    player,          \* the pose: x, y (sixteenths of a tile), angle (eighths of a turn)
    keys,            \* the key flags
    viewMode,        \* "first" or "map"
    timers,          \* the stage-transition callbacks update has scheduled
    ray,             \* the locals of the castRay call under way, and its result
    stage,           \* the stage counter
    pointerLock,     \* document.pointerLockElement === canvas
    touchDevice,     \* 'ontouchstart' in window
    ongoingTouches,  \* the touches under way: identifier -> [lastX, type]
    rendered,        \* what the last render() did
    arrived          \* the arrivals of the player at the exit tile so far

genVars == <<width, height, maze, stack, arg, pc>>
gameVars == <<grid, exitX, exitY, player>>
inputVars == <<keys, viewMode, timers>>
loopVars == <<stage, pointerLock, touchDevice, ongoingTouches, rendered, arrived>>
vars == <<genVars, gameVars, inputVars, ray, loopVars>>

(***************************************************************************)
(* Bounds of the model.                                                    *)
(***************************************************************************)
\* The largest width and height generateMaze is called with, and the most
\* cells of a lattice.
MaxDim == 2
MaxCells == 4

\* The widths and heights tried: the invalid ones (negative, zero) too.
Dims == -1 .. MaxDim

(***************************************************************************)
(* Fixed-point numbers.                                                    *)
(***************************************************************************)
\* A tile is PosUnit position units wide: 1.5 tiles is 24.
PosUnit == 16

\* A tile is DistUnit ray-distance units long (so that the side distances
\* of castRay are whole numbers).
DistUnit == PosUnit * 3

Abs(n) == IF n < 0 THEN -n ELSE n

\* Math.floor of a position, in tiles.
Floor(p) == p \div PosUnit

\* Math.cos and Math.sin at the multiples of 45 degrees, in quarters,
\* rounded to the nearest quarter (0.707 to 3/4).
CosTable == <<4, 3, 0, -3, -4, -3, 0, 3>>
TurnUnits == Len(CosTable)
Cos(a) == CosTable[(a % TurnUnits) + 1]
Sin(a) == Cos(a - TurnUnits \div 4)

(***************************************************************************)
(* generateMaze                                                            *)
(***************************************************************************)
NoMaze == <<>>
NoGrid == <<>>

NewCell ==
    [visited |-> FALSE,
     walls |-> [north |-> TRUE, south |-> TRUE, west |-> TRUE, east |-> TRUE]]

\* Lines 33-42: height rows of width fresh cells (no row when height <= 0,
\* empty rows when width <= 0).
NewMaze(w, h) == [y \in 0 .. h - 1 |-> [x \in 0 .. w - 1 |-> NewCell]]

DirNames == <<"north", "south", "west", "east">>

\* A swap that loses array[i]: array[i] = array[j] alone.
SwapLost(array, i, j) == [array EXCEPT ![i + 1] = array[j + 1]]

\* [array[i], array[j]] = [array[j], array[i]], on 0-based indexes.
Swap(array, i, j) ==
    [array EXCEPT ![i + 1] = array[j + 1], ![j + 1] = array[i + 1]]

\* The draws of Math.floor(Math.random() * (i + 1)) for i = 3, 2, 1.
RandomDraws == {r \in [1 .. 3 -> 0 .. 3] : \A i \in 1 .. 3 : r[i] <= i}

RECURSIVE ShuffleFrom(_, _, _)
ShuffleFrom(array, i, r) ==
    IF i > 0 THEN ShuffleFrom(Swap(array, i, r[i]), i - 1, r) ELSE array

\* The Fisher-Yates shuffle of lines 43-49 under the draws r.
shuffle(array, r) == ShuffleFrom(array, Len(array) - 1, r)

\* maze[y][x] is a cell (not undefined).
HasCell(m, x, y) == y \in DOMAIN m /\ x \in DOMAIN m[y]

\* A carve that skips a missing cell instead of throwing.
MarkVisitedIfPresent(m, x, y) ==
    [threw |-> FALSE,
     maze |-> IF HasCell(m, x, y) THEN [m EXCEPT ![y][x].visited = TRUE] ELSE m]

\* Line 51: maze[y][x].visited = true, a TypeError when maze[y] or
\* maze[y][x] is undefined.
MarkVisited(m, x, y) ==
    IF HasCell(m, x, y)
    THEN [threw |-> FALSE, maze |-> [m EXCEPT ![y][x].visited = TRUE]]
    ELSE [threw |-> TRUE, maze |-> m]

\* Lines 54-59: the neighbour of (x, y) in direction dir.
NeighbourX(x, dir) ==
    IF dir = "west" THEN x - 1 ELSE IF dir = "east" THEN x + 1 ELSE x

NeighbourY(y, dir) ==
    IF dir = "north" THEN y - 1 ELSE IF dir = "south" THEN y + 1 ELSE y

Opposite(dir) ==
    CASE dir = "north" -> "south"
      [] dir = "south" -> "north"
      [] dir = "west" -> "east"
      [] dir = "east" -> "west"

\* The neighbour carved into while visited.
CanCarveVisited(m, w, h, nx, ny) == nx >= 0 /\ nx < w /\ ny >= 0 /\ ny < h

\* Line 60: the neighbour is in bounds and not visited.
CanCarve(m, w, h, nx, ny) ==
    nx >= 0 /\ nx < w /\ ny >= 0 /\ ny < h /\ ~m[ny][nx].visited

\* The wall cleared on the current cell's side only.
ClearNearWall(m, x, y, nx, ny, dir) == [m EXCEPT ![y][x].walls[dir] = FALSE]

\* Lines 61-65: the wall is cleared on both sides.
ClearWalls(m, x, y, nx, ny, dir) ==
    [m EXCEPT ![y][x].walls[dir] = FALSE, ![ny][nx].walls[Opposite(dir)] = FALSE]

\* Lines 99-105: the pose before initGame.
Player0 == [x |-> (3 * PosUnit) \div 2, y |-> (3 * PosUnit) \div 2, angle |-> 0]

\* Lines 140-147.
Keys0 ==
    [forward |-> FALSE, backward |-> FALSE, strafeLeft |-> FALSE,
     strafeRight |-> FALSE, turnLeft |-> FALSE, turnRight |-> FALSE]

\* No castRay call has been made.
Ray0 == [rpc |-> "idle"]

\* No frame has been rendered.
NoRender == [mode |-> "none", castRay |-> 0]

Init ==
    /\ width \in Dims
    /\ height \in Dims
    /\ width * height <= MaxCells
    /\ maze = NoMaze
    /\ stack = <<>>
    /\ arg = <<>>
    /\ pc = "start"
    /\ grid = NoGrid
    /\ exitX = 0
    /\ exitY = 0
    /\ player = Player0
    /\ keys = Keys0
    /\ viewMode = "first"
    /\ timers = 0
    /\ ray = Ray0
    /\ stage = 1
    /\ pointerLock = FALSE
    /\ touchDevice = FALSE
    /\ ongoingTouches = <<>>
    /\ rendered = NoRender
    /\ arrived = 0

\* Lines 33-42 and 70: the lattice is built and carve(0, 0) is called.
GenerateMaze ==
    /\ pc = "start"
    /\ maze' = NewMaze(width, height)
    /\ arg' = <<0, 0>>
    /\ pc' = "call"
    /\ UNCHANGED <<width, height, stack, gameVars, inputVars, ray, loopVars>>

\* Lines 51-52: carve(x, y) marks its cell and shuffles the directions.
CarveEnter ==
    /\ pc = "call"
    /\ LET x == arg[1]
           y == arg[2]
           marked == MarkVisited(maze, x, y)
       IN  IF marked.threw
           THEN /\ pc' = "threw"
                /\ UNCHANGED <<maze, stack>>
           ELSE \E r \in RandomDraws :
                /\ maze' = marked.maze
                /\ stack' = Append(stack, [x |-> x, y |-> y, dirs |-> shuffle(DirNames, r)])
                /\ pc' = "loop"
    /\ arg' = <<>>
    /\ UNCHANGED <<width, height, gameVars, inputVars, ray, loopVars>>

\* Lines 53-67: one iteration of carve's loop over the shuffled directions.
CarveLoop ==
    /\ pc = "loop"
    /\ stack[Len(stack)].dirs # <<>>
    /\ LET top == stack[Len(stack)]
           dir == Head(top.dirs)
           nx == NeighbourX(top.x, dir)
           ny == NeighbourY(top.y, dir)
           rest == [stack EXCEPT ![Len(stack)].dirs = Tail(top.dirs)]
       IN  IF CanCarve(maze, width, height, nx, ny)
           THEN /\ maze' = ClearWalls(maze, top.x, top.y, nx, ny, dir)
                /\ arg' = <<nx, ny>>
                /\ pc' = "call"
                /\ stack' = rest
           ELSE /\ stack' = rest
                /\ UNCHANGED <<maze, arg, pc>>
    /\ UNCHANGED <<width, height, gameVars, inputVars, ray, loopVars>>

\* Lines 68-71: carve returns to its caller; generateMaze returns the maze.
CarveReturn ==
    /\ pc = "loop"
    /\ stack[Len(stack)].dirs = <<>>
    /\ stack' = SubSeq(stack, 1, Len(stack) - 1)
    /\ pc' = IF Len(stack) = 1 THEN "returned" ELSE "loop"
    /\ UNCHANGED <<width, height, maze, arg, gameVars, inputVars, ray, loopVars>>

(***************************************************************************)
(* mazeToGrid and initGame                                                 *)
(***************************************************************************)
WALL == 1
OPEN == 0

\* array.length of a 0-based array.
Length(array) == Cardinality(DOMAIN array)

\* grid[gy][gx] = 0.
SetOpen(g, gy, gx) == [g EXCEPT ![gy][gx] = OPEN]

\* The west boundary written where the east one is (gx + 1 for gx - 1).
OpenCellWestSlip(g, cell, gy, gx) ==
    LET g0 == SetOpen(g, gy, gx)
        g1 == IF ~cell.walls.north THEN SetOpen(g0, gy - 1, gx) ELSE g0
        g2 == IF ~cell.walls.south THEN SetOpen(g1, gy + 1, gx) ELSE g1
        g3 == IF ~cell.walls.west THEN SetOpen(g2, gy, gx + 1) ELSE g2
    IN  IF ~cell.walls.east THEN SetOpen(g3, gy, gx + 1) ELSE g3

\* The north boundary opened where the wall is present.
OpenCellNorthInverted(g, cell, gy, gx) ==
    LET g0 == SetOpen(g, gy, gx)
        g1 == IF cell.walls.north THEN SetOpen(g0, gy - 1, gx) ELSE g0
        g2 == IF ~cell.walls.south THEN SetOpen(g1, gy + 1, gx) ELSE g1
        g3 == IF ~cell.walls.west THEN SetOpen(g2, gy, gx - 1) ELSE g2
    IN  IF ~cell.walls.east THEN SetOpen(g3, gy, gx + 1) ELSE g3

\* The cell's interior opened and no boundary tile.
OpenCellInteriorOnly(g, cell, gy, gx) == SetOpen(g, gy, gx)

\* Lines 85-92: the cell's interior is opened, and the boundary tile on
\* each side whose wall flag is absent.
OpenCell(g, cell, gy, gx) ==
    LET g0 == SetOpen(g, gy, gx)
        g1 == IF ~cell.walls.north THEN SetOpen(g0, gy - 1, gx) ELSE g0
        g2 == IF ~cell.walls.south THEN SetOpen(g1, gy + 1, gx) ELSE g1
        g3 == IF ~cell.walls.west THEN SetOpen(g2, gy, gx - 1) ELSE g2
    IN  IF ~cell.walls.east THEN SetOpen(g3, gy, gx + 1) ELSE g3

\* Lines 83-94: the iterations of the loops over y and x for the cells
\* numbered k = y * w + x, from <= k < to, in that order.  The grid left by
\* the first half is a value (the element of a singleton) before the second
\* half is begun, so that the evaluation stays shallow and is made once on
\* the lattices of the game.
RECURSIVE GridFrom(_, _, _, _, _)
GridFrom(g, m, w, from, to) ==
    IF from >= to
    THEN g
    ELSE IF to = from + 1
    THEN OpenCell(g, m[from \div w][from % w], (from \div w) * 2 + 1, (from % w) * 2 + 1)
    ELSE CHOOSE done \in {GridFrom(half, m, w, (from + to) \div 2, to) :
                              half \in {GridFrom(g, m, w, from, (from + to) \div 2)}} : TRUE

\* Lines 77-96.
mazeToGrid(m) ==
    LET h == Length(m)
        w == Length(m[0])
        gridH == h * 2 + 1
        gridW == w * 2 + 1
        filled == [y \in 0 .. gridH - 1 |-> [x \in 0 .. gridW - 1 |-> WALL]]
    IN  GridFrom(filled, m, w, 0, w * h)

\* Lines 122-130, once generateMaze has returned: the grid is built and the
\* exit is the last cell's interior.
InitGame ==
    /\ pc = "returned"
    /\ grid' = mazeToGrid(maze)
    /\ exitX' = width * 2 - 1
    /\ exitY' = height * 2 - 1
    /\ player' = [x |-> (3 * PosUnit) \div 2, y |-> (3 * PosUnit) \div 2, angle |-> 0]
    /\ pc' = "ready"
    /\ UNCHANGED <<width, height, maze, stack, arg, inputVars, ray, loopVars>>

NextGen == GenerateMaze \/ CarveEnter \/ CarveLoop \/ CarveReturn \/ InitGame

Spec == Init /\ [][NextGen]_vars

(***************************************************************************)
(* castRay                                                                 *)
(***************************************************************************)
\* Lines 113-114.
startGridX == 1
startGridY == 1

\* One in the units of CosTable.
CosUnit == CosTable[1]

\* A JavaScript number that is either finite (in DistUnit) or Infinity.
Finite(n) == [inf |-> FALSE, val |-> n]
Infinity == [inf |-> TRUE, val |-> 0]

\* The 1e30 of lines 317-318.  It stands here at 100000 tiles, which like
\* 1e30 exceeds every side distance a ray accumulates inside a grid.
Sentinel == 100000 * DistUnit

\* Lines 317-318: rayDir === 0 ? 1e30 : Math.abs(1 / rayDir).
DeltaDist(rayDir) ==
    IF rayDir = 0 THEN Sentinel ELSE (CosUnit * DistUnit) \div Abs(rayDir)

\* The step taken as the integer part of the direction.
StepDirTruncated(rayDir) ==
    IF rayDir <= -CosUnit THEN -1 ELSE IF rayDir >= CosUnit THEN 1 ELSE 0

\* Lines 322-335: the step direction of an axis.
StepDir(rayDir) == IF rayDir < 0 THEN -1 ELSE 1

\* Lines 322-335: the distance along the ray to the first grid line.
SideDist(rayDir, pos, map, deltaDist) ==
    IF rayDir < 0
    THEN (pos - map * PosUnit) * (deltaDist \div PosUnit)
    ELSE (map * PosUnit + PosUnit - pos) * (deltaDist \div PosUnit)

\* Lines 340-341 and 359-360: (x, y) is the landmark (lx, ly).
AtLandmark(x, y, lx, ly) == x = lx /\ y = ly

\* The flag assigned the comparison, and so cleared by the next tile.
LatchOverwritten(flag, at) == at

\* Lines 359-360: if (at the landmark) flag = true.
Latch(flag, at) == flag \/ at

\* Line 354.
OutsideMap(g, mapX, mapY) ==
    mapX < 0 \/ mapX >= Length(g[0]) \/ mapY < 0 \/ mapY >= Length(g)

\* The distance with pos - map for map - pos.
PerpWallDistSwapped(map, pos, step, rayDir) ==
    LET n == pos - map * PosUnit + ((1 - step) \div 2) * PosUnit
        perUnit == DistUnit \div PosUnit
    IN  IF rayDir = 0
        THEN n * perUnit * 1000000
        ELSE IF rayDir < 0
        THEN -((n * perUnit * CosUnit) \div Abs(rayDir))
        ELSE (n * perUnit * CosUnit) \div rayDir

\* Lines 369 and 371: (map - pos + (1 - step) / 2) / (rayDir === 0 ? 1e-6 : rayDir).
PerpWallDist(map, pos, step, rayDir) ==
    LET n == map * PosUnit - pos + ((1 - step) \div 2) * PosUnit
        perUnit == DistUnit \div PosUnit
    IN  IF rayDir = 0
        THEN n * perUnit * 1000000
        ELSE IF rayDir < 0
        THEN -((n * perUnit * CosUnit) \div Abs(rayDir))
        ELSE (n * perUnit * CosUnit) \div rayDir

\* Lines 311-341: the locals of castRay(posX, posY, rayAngle) before its
\* loop.  steps and path record the iterations made and the tiles stepped
\* into.
RayStart(posX, posY, rayAngle, ex, ey) ==
    LET rayDirX == Cos(rayAngle)
        rayDirY == Sin(rayAngle)
        mapX == Floor(posX)
        mapY == Floor(posY)
        deltaDistX == DeltaDist(rayDirX)
        deltaDistY == DeltaDist(rayDirY)
    IN  [rpc |-> "loop",
         posX |-> posX, posY |-> posY, rayAngle |-> rayAngle,
         rayDirX |-> rayDirX, rayDirY |-> rayDirY,
         mapX |-> mapX, mapY |-> mapY,
         deltaDistX |-> deltaDistX, deltaDistY |-> deltaDistY,
         stepX |-> StepDir(rayDirX), stepY |-> StepDir(rayDirY),
         sideDistX |-> SideDist(rayDirX, posX, mapX, deltaDistX),
         sideDistY |-> SideDist(rayDirY, posY, mapY, deltaDistY),
         side |-> 0, hit |-> FALSE,
         startSeen |-> AtLandmark(Floor(posX), Floor(posY), startGridX, startGridY),
         exitSeenFlag |-> AtLandmark(Floor(posX), Floor(posY), ex, ey),
         steps |-> 0, path |-> <<>>,
         result |-> Infinity]

\* The side recorded as that of the other axis.
RayAdvanceSideSwapped(r) ==
    IF r.sideDistX < r.sideDistY
    THEN [r EXCEPT !.sideDistX = @ + r.deltaDistX, !.mapX = @ + r.stepX, !.side = 1]
    ELSE [r EXCEPT !.sideDistY = @ + r.deltaDistY, !.mapY = @ + r.stepY, !.side = 0]

\* Lines 344-352: the ray advances along the axis with the smaller side
\* distance.
RayAdvance(r) ==
    IF r.sideDistX < r.sideDistY
    THEN [r EXCEPT !.sideDistX = @ + r.deltaDistX, !.mapX = @ + r.stepX, !.side = 0]
    ELSE [r EXCEPT !.sideDistY = @ + r.deltaDistY, !.mapY = @ + r.stepY, !.side = 1]

\* Lines 366-373: the result of a ray that has hit a wall.
RayResult(r) ==
    [dist |-> Finite(IF r.side = 0
                     THEN PerpWallDist(r.mapX, r.posX, r.stepX, r.rayDirX)
                     ELSE PerpWallDist(r.mapY, r.posY, r.stepY, r.rayDirY)),
     side |-> r.side, startSeen |-> r.startSeen, exitSeen |-> r.exitSeenFlag]

\* Lines 343-365, and 366-373 when the loop ends: one iteration of the loop.
RayIterate(r, g, ex, ey) ==
    LET a == RayAdvance(r)
        m == [a EXCEPT !.steps = @ + 1, !.path = Append(@, <<a.mapX, a.mapY>>)]
    IN  IF OutsideMap(g, m.mapX, m.mapY)
        THEN [m EXCEPT !.rpc = "done",
                       !.result = [dist |-> Infinity, side |-> 0,
                                   startSeen |-> FALSE, exitSeen |-> FALSE]]
        ELSE LET open == ~m.hit /\ g[m.mapY][m.mapX] = OPEN
                 s == [m EXCEPT
                         !.startSeen = IF open
                                       THEN Latch(@, AtLandmark(m.mapX, m.mapY, startGridX, startGridY))
                                       ELSE @,
                         !.exitSeenFlag = IF open
                                          THEN Latch(@, AtLandmark(m.mapX, m.mapY, ex, ey))
                                          ELSE @]
             IN  IF g[m.mapY][m.mapX] = WALL
                 THEN [s EXCEPT !.hit = TRUE, !.rpc = "done",
                                !.result = RayResult([s EXCEPT !.hit = TRUE])]
                 ELSE s

\* The distances of a ray origin from the west or north edge of its tile.
Fracs == {0, 5, 8}

\* The ray origins tried along an axis of n tiles: in every tile of the
\* grid, and in the OutsideRing tiles beyond each edge.
OutsideRing == 1
Origins(n) ==
    {c * PosUnit + f : c \in (-OutsideRing) .. (n - 1 + OutsideRing), f \in Fracs}

\* castRay(posX, posY, rayAngle) is called and runs up to its loop.  Every
\* call starts from fresh locals, so one call per grid is followed.
CastRay ==
    /\ pc = "ready"
    /\ ray.rpc = "idle"
    /\ \E posX \in Origins(Length(grid[0])), posY \in Origins(Length(grid)),
          rayAngle \in 0 .. TurnUnits - 1 :
            ray' = RayStart(posX, posY, rayAngle, exitX, exitY)
    /\ UNCHANGED <<genVars, gameVars, inputVars, loopVars>>

\* One iteration of castRay's loop; the last one returns the result.
RayStep ==
    /\ ray.rpc = "loop"
    /\ ray' = RayIterate(ray, grid, exitX, exitY)
    /\ UNCHANGED <<genVars, gameVars, inputVars, loopVars>>

NextRay == NextGen \/ CastRay \/ RayStep

SpecRay == Init /\ [][NextRay]_vars

(***************************************************************************)
(* The key handlers and update                                             *)
(***************************************************************************)
\* Lines 149-188: onKeyDown(e), e.code = code.
KeyDown(k, code) ==
    CASE code \in {"ArrowUp", "KeyW"} -> [k EXCEPT !.forward = TRUE]
      [] code \in {"ArrowDown", "KeyS"} -> [k EXCEPT !.backward = TRUE]
      [] code = "KeyA" -> [k EXCEPT !.strafeLeft = TRUE]
      [] code = "KeyD" -> [k EXCEPT !.strafeRight = TRUE]
      [] code = "ArrowLeft" -> [k EXCEPT !.turnLeft = TRUE]
      [] code = "ArrowRight" -> [k EXCEPT !.turnRight = TRUE]
      [] OTHER -> k

\* Lines 189-212: onKeyUp(e), e.code = code.
KeyUp(k, code) ==
    CASE code \in {"ArrowUp", "KeyW"} -> [k EXCEPT !.forward = FALSE]
      [] code \in {"ArrowDown", "KeyS"} -> [k EXCEPT !.backward = FALSE]
      [] code = "KeyA" -> [k EXCEPT !.strafeLeft = FALSE]
      [] code = "KeyD" -> [k EXCEPT !.strafeRight = FALSE]
      [] code = "ArrowLeft" -> [k EXCEPT !.turnLeft = FALSE]
      [] code = "ArrowRight" -> [k EXCEPT !.turnRight = FALSE]
      [] OTHER -> k

\* Line 173.
ToggleView(mode, code) ==
    IF code = "KeyM" THEN (IF mode = "first" THEN "map" ELSE "first") ELSE mode

\* The keys that move and turn the player.
MoveCodes ==
    {"ArrowUp", "KeyW", "ArrowDown", "KeyS", "KeyA", "KeyD", "ArrowLeft", "ArrowRight"}

\* The handlers are registered once initGame has run (lines 137, 214), and
\* run between the synchronous calls of the program.
OnKeyDown ==
    /\ pc = "ready"
    /\ \E code \in MoveCodes :
        /\ keys' = KeyDown(keys, code)
        /\ viewMode' = ToggleView(viewMode, code)
    /\ UNCHANGED <<genVars, gameVars, timers, ray, loopVars>>

OnKeyUp ==
    /\ pc = "ready"
    /\ \E code \in MoveCodes : keys' = KeyUp(keys, code)
    /\ UNCHANGED <<genVars, gameVars, viewMode, timers, ray, loopVars>>

\* Line 103: moveSpeed = 3.0 tiles per second.  Line 104: rotSpeed = Math.PI
\* per second, which is TurnUnits / 2 angle units.  A frame delta counts
\* quarters of a second, so that a turn is a whole number of angle units
\* and a step a whole number of position units.
moveSpeed == 3
DeltaUnit == 4
MoveStep(delta) == (moveSpeed * PosUnit * delta) \div DeltaUnit
RotStep(delta) == ((TurnUnits \div 2) * delta) \div DeltaUnit

\* Line 510: radius = 0.2 = 1 / RadiusInverse of a tile.  The arguments of
\* isWall count 1 / RadiusInverse of a position unit.
RadiusInverse == 5
FineUnit == RadiusInverse * PosUnit

\* Lines 511-516, without the bounds check: grid[gy] undefined throws, and
\* an undefined grid[gy][gx] is not 1.
isWallUnchecked(g, x, y) ==
    LET gx == x \div FineUnit
        gy == y \div FineUnit
    IN  IF gy \notin DOMAIN g
        THEN [threw |-> TRUE, value |-> FALSE]
        ELSE IF gx \notin DOMAIN g[gy]
        THEN [threw |-> FALSE, value |-> FALSE]
        ELSE [threw |-> FALSE, value |-> g[gy][gx] = WALL]

\* Lines 511-516.
isWall(g, x, y) ==
    LET gx == x \div FineUnit
        gy == y \div FineUnit
    IN  IF gx < 0 \/ gx >= Length(g[0]) \/ gy < 0 \/ gy >= Length(g)
        THEN [threw |-> FALSE, value |-> TRUE]
        ELSE [threw |-> FALSE, value |-> g[gy][gx] = WALL]

\* Lines 494-498: the turn keys, then one wrap into [0, 2 pi).
Turned(angle, k, delta) ==
    LET a1 == IF k.turnLeft THEN angle - RotStep(delta) ELSE angle
        a2 == IF k.turnRight THEN a1 + RotStep(delta) ELSE a1
        a3 == IF a2 < 0 THEN a2 + TurnUnits ELSE a2
    IN  IF a3 >= TurnUnits THEN a3 - TurnUnits ELSE a3

\* Lines 499-507: the turned angle and the position update would move to.
NewPose(p, k, delta) ==
    LET angle == Turned(p.angle, k, delta)
        moveStep == (IF k.forward THEN MoveStep(delta) ELSE 0)
                        - (IF k.backward THEN MoveStep(delta) ELSE 0)
        strafeStep == (IF k.strafeRight THEN MoveStep(delta) ELSE 0)
                        - (IF k.strafeLeft THEN MoveStep(delta) ELSE 0)
    IN  [x |-> p.x + (Cos(angle) * moveStep) \div CosUnit
                   + (Cos(angle + TurnUnits \div 4) * strafeStep) \div CosUnit,
         y |-> p.y + (Sin(angle) * moveStep) \div CosUnit
                   + (Sin(angle + TurnUnits \div 4) * strafeStep) \div CosUnit,
         angle |-> angle]

\* cos(angle) * radius, in the units of isWall's arguments.
RadiusTimes(c) == (PosUnit \div CosUnit) * c

\* Line 519: the point isWall is asked about before the horizontal move.
HorizontalQuery(p, n) ==
    [x |-> RadiusInverse * n.x + RadiusTimes(Cos(n.angle)), y |-> RadiusInverse * p.y]

\* Line 523: the point isWall is asked about before the vertical move,
\* player.x being x1 by then.
VerticalQuery(x1, n) ==
    [x |-> RadiusInverse * x1, y |-> RadiusInverse * n.y + RadiusTimes(Sin(n.angle))]

\* Lines 493-525: the pose after update(delta), and whether isWall threw.
Moved(p, k, g, delta) ==
    LET n == NewPose(p, k, delta)
        hq == HorizontalQuery(p, n)
        horizontal == isWall(g, hq.x, hq.y)
        x1 == IF ~horizontal.threw /\ ~horizontal.value THEN n.x ELSE p.x
        vq == VerticalQuery(x1, n)
        vertical == IF horizontal.threw THEN horizontal ELSE isWall(g, vq.x, vq.y)
        y1 == IF ~vertical.threw /\ ~vertical.value THEN n.y ELSE p.y
    IN  [pose |-> [x |-> x1, y |-> y1, angle |-> n.angle], threw |-> vertical.threw]

\* Lines 527-529: the player's tile is the exit.
AtExit(p, ex, ey) == Floor(p.x) = ex /\ Floor(p.y) = ey

\* The frame deltas tried, in quarters of a second, and the stage transitions
\* that may be pending at once.
MaxDelta == 2
MaxTimers == 1

\* Lines 488-538: update(delta).
Update ==
    /\ pc = "ready"
    /\ \E delta \in 0 .. MaxDelta :
        IF viewMode = "map"
        THEN UNCHANGED <<player, timers>>
        ELSE LET m == Moved(player, keys, grid, delta)
             IN  /\ player' = m.pose
                 /\ IF ~m.threw /\ AtExit(m.pose, exitX, exitY)
                    THEN timers < MaxTimers /\ timers' = timers + 1
                    ELSE UNCHANGED timers
    /\ UNCHANGED <<genVars, grid, exitX, exitY, keys, viewMode, ray, loopVars>>

NextMove == NextGen \/ OnKeyDown \/ OnKeyUp \/ Update

\* Lines 120-122: initGame calls generateMaze with equal, positive sizes.
InitSquare == Init /\ width = height /\ width >= 1

SpecMove == InitSquare /\ [][NextMove]_vars

(***************************************************************************)
(* initGame as the event loop sees it: one uninterrupted call.             *)
(***************************************************************************)
\* The draws of one shuffle, numbered 0 .. 23.
DrawsOf(n) ==
    [i \in 1 .. 3 |->
        CASE i = 1 -> n % 2
          [] i = 2 -> (n \div 2) % 3
          [] i = 3 -> (n \div 6) % 4]

\* Math.random under a seed: the draws of the shuffle made by carve(x, y).
\* carve is called once for a cell, so every seed is one outcome of the
\* calls of Math.random.
RandomOf(seed, x, y) == DrawsOf((seed + 7 * x + 5 * y + seed * x * y) % 24)

\* Lines 50-69: the next step of a generateMaze call with locals c (the
\* lattice, the stack of carve, the call being entered): carve marks its
\* cell and shuffles, or runs one iteration of its loop, or returns.
carveStep(c, w, h, seed) ==
    IF c.pc = "call"
    THEN LET x == c.arg[1]
             y == c.arg[2]
             marked == MarkVisited(c.maze, x, y)
         IN  IF marked.threw
             THEN [c EXCEPT !.pc = "threw"]
             ELSE [maze |-> marked.maze,
                   stack |-> Append(c.stack,
                                [x |-> x, y |-> y,
                                 dirs |-> shuffle(DirNames, RandomOf(seed, x, y))]),
                   arg |-> <<>>,
                   pc |-> "loop"]
    ELSE IF c.pc = "loop"
    THEN LET top == c.stack[Len(c.stack)]
         IN  IF top.dirs = <<>>
             THEN [c EXCEPT !.stack = SubSeq(c.stack, 1, Len(c.stack) - 1),
                            !.pc = IF Len(c.stack) = 1 THEN "returned" ELSE "loop"]
             ELSE LET dir == Head(top.dirs)
                      nx == NeighbourX(top.x, dir)
                      ny == NeighbourY(top.y, dir)
                      rest == [c.stack EXCEPT ![Len(c.stack)].dirs = Tail(top.dirs)]
                  IN  IF CanCarve(c.maze, w, h, nx, ny)
                      THEN [maze |-> ClearWalls(c.maze, top.x, top.y, nx, ny, dir),
                            stack |-> rest, arg |-> <<nx, ny>>, pc |-> "call"]
                      ELSE [c EXCEPT !.stack = rest]
    ELSE c

\* Up to n steps of the call, until it returns or throws.  The steps are
\* made half by half, the locals after the first half being a value (the
\* element of a singleton) before the second half is begun.
RECURSIVE carveSteps(_, _, _, _, _)
carveSteps(c, w, h, seed, n) ==
    IF n = 0
    THEN c
    ELSE IF n = 1
    THEN carveStep(c, w, h, seed)
    ELSE CHOOSE done \in {IF half.pc \in {"returned", "threw"}
                           THEN half
                           ELSE carveSteps(half, w, h, seed, n - n \div 2) :
                              half \in {carveSteps(c, w, h, seed, n \div 2)}} : TRUE

\* Lines 32-72: the lattice generateMaze(w, h) returns.  A call of carve
\* takes at most six steps (entry, four iterations, return).
generateMaze(w, h, seed) ==
    carveSteps([maze |-> NewMaze(w, h), stack |-> <<>>, arg |-> <<0, 0>>, pc |-> "call"],
               w, h, seed, 6 * w * h).maze

\* Line 119.
baseSize == 8

\* The maze sized by the stage before, not by the stage begun.
mazeSizeStale(s) == baseSize + (s - 2) * 2

\* Lines 120-121: the size of the maze of a stage.
mazeSize(s) == baseSize + (s - 1) * 2

\* The pose left as the player had it.
StartPoseKept(p) == p

\* Lines 125-127: the pose initGame assigns.
StartPose(p) == [p EXCEPT !.x = (3 * PosUnit) \div 2, !.y = (3 * PosUnit) \div 2, !.angle = 0]

\* The outcomes of Math.random tried for the maze of a stage, the last stage
\* played, and the stage transitions pending at once.
MaxSeed == 1
MaxStage == 2
MaxPending == 2
Seeds == 0 .. MaxSeed

\* Lines 122-123: the lattice and the grid of each stage under each seed,
\* evaluated once for all the states that use them.
Built ==
    [s \in 1 .. MaxStage |->
        [seed \in Seeds |->
            CHOOSE built \in {[maze |-> m, grid |-> mazeToGrid(m)] :
                                m \in {generateMaze(mazeSize(s), mazeSize(s), seed)}} : TRUE]]

\* Lines 116-130: what initGame() assigns in stage s, Math.random running
\* under seed.
initGame(s, p, seed) ==
    LET size == mazeSize(s)
    IN  [mazeWidth |-> size, mazeHeight |-> size,
         maze |-> Built[s][seed].maze,
         grid |-> Built[s][seed].grid,
         player |-> StartPose(p),
         exitX |-> size * 2 - 1, exitY |-> size * 2 - 1]

\* Lines 18-20, 99-147 and 235: the program once its script has run, on a
\* desktop or on a touch device.
InitLoop ==
    \E seed \in Seeds, touch \in BOOLEAN :
        LET g == initGame(1, Player0, seed)
        IN  /\ stage = 1
            /\ width = g.mazeWidth
            /\ height = g.mazeHeight
            /\ maze = g.maze
            /\ stack = <<>>
            /\ arg = <<>>
            /\ pc = "ready"
            /\ grid = g.grid
            /\ exitX = g.exitX
            /\ exitY = g.exitY
            /\ player = g.player
            /\ keys = Keys0
            /\ viewMode = "first"
            /\ timers = 0
            /\ ray = Ray0
            /\ pointerLock = FALSE
            /\ touchDevice = touch
            /\ ongoingTouches = <<>>
            /\ rendered = NoRender
            /\ arrived = 0

(***************************************************************************)
(* The animation loop, the timer and the pointer and touch handlers.       *)
(***************************************************************************)
\* update without the test of the view mode.
updateInMap(mode, p, k, g, ex, ey, delta) ==
    LET m == Moved(p, k, g, delta)
    IN  [pose |-> m.pose,
         scheduled |-> IF ~m.threw /\ AtExit(m.pose, ex, ey) THEN 1 ELSE 0]

\* Lines 488-538: the pose update(delta) leaves and the number of
\* stage-transition callbacks it passes to setTimeout.
update(mode, p, k, g, ex, ey, delta) ==
    IF mode = "map"
    THEN [pose |-> p, scheduled |-> 0]
    ELSE LET m == Moved(p, k, g, delta)
         IN  [pose |-> m.pose,
              scheduled |-> IF ~m.threw /\ AtExit(m.pose, ex, ey) THEN 1 ELSE 0]

\* The width of the canvas in pixels (line 24), one ray each.
canvasWidth == 2

\* render without the return of line 383.
renderThrough(mode) == [mode |-> mode, castRay |-> canvasWidth]

\* Lines 377-394: the mode render() draws in and the calls of castRay it
\* makes: none in map view, one for each column otherwise.
render(mode) == [mode |-> mode, castRay |-> IF mode = "map" THEN 0 ELSE canvasWidth]

\* The frame deltas of the animation loop, in quarters of a second: a
\* still frame and one of half a second (a quarter turn, a tile and a half).
FrameDeltas == {0, 2}

\* Lines 542-548: frame(time), update(delta) and then render().
Frame ==
    /\ pc = "ready"
    /\ \E delta \in FrameDeltas :
        \E u \in {update(viewMode, player, keys, grid, exitX, exitY, delta)} :
            /\ timers + u.scheduled <= MaxPending
            /\ player' = u.pose
            /\ timers' = timers + u.scheduled
            /\ arrived' = IF u.scheduled = 1 /\ ~AtExit(player, exitX, exitY)
                          THEN arrived + 1
                          ELSE arrived
            /\ rendered' = render(viewMode)
    /\ UNCHANGED <<genVars, grid, exitX, exitY, keys, viewMode, ray,
                   stage, pointerLock, touchDevice, ongoingTouches>>

\* Lines 532-536: a callback passed to setTimeout runs: the stage counter
\* is incremented and initGame() builds the next maze.
StageTransition ==
    /\ pc = "ready"
    /\ timers > 0
    /\ stage < MaxStage
    /\ \E seed \in Seeds :
        LET g == initGame(stage + 1, player, seed)
        IN  /\ stage' = stage + 1
            /\ width' = g.mazeWidth
            /\ height' = g.mazeHeight
            /\ maze' = g.maze
            /\ grid' = g.grid
            /\ exitX' = g.exitX
            /\ exitY' = g.exitY
            /\ player' = g.player
    /\ timers' = timers - 1
    /\ UNCHANGED <<stack, arg, pc, keys, viewMode, ray,
                   pointerLock, touchDevice, ongoingTouches, rendered, arrived>>

\* Lines 149-188 and 189-212 with e.code among codes.
KeyDownEvent(codes) ==
    /\ pc = "ready"
    /\ \E code \in codes :
        /\ keys' = KeyDown(keys, code)
        /\ viewMode' = ToggleView(viewMode, code)
    /\ UNCHANGED <<genVars, gameVars, timers, ray, loopVars>>

KeyUpEvent(codes) ==
    /\ pc = "ready"
    /\ \E code \in codes : keys' = KeyUp(keys, code)
    /\ UNCHANGED <<genVars, gameVars, viewMode, timers, ray, loopVars>>

\* The keys pressed while the stages are played: forward and turn right.
StageCodes == {"KeyW", "ArrowRight"}
OnStageKeyDown == KeyDownEvent(StageCodes)
OnStageKeyUp == KeyUpEvent(StageCodes)

NextStage == Frame \/ StageTransition \/ OnStageKeyDown \/ OnStageKeyUp

SpecStage == InitLoop /\ [][NextStage]_vars

\* Mouse and touch distances count the pixels of a quarter turn (785 of
\* movementX at 0.002 a pixel, 314 of clientX at 0.005 a pixel).
LookTurn == TurnUnits \div 4

\* The look handlers carry the angle at most MaxLook units out of
\* [0, 2 pi) in a model run.
MaxLook == 2
LookRange == (-MaxLook) .. (TurnUnits - 1 + MaxLook)

\* The pointer lock is granted (after the requests of lines 183 and 222) or
\* taken away (after line 178, or by the user) between two handlers.
PointerLockChange ==
    /\ pc = "ready"
    /\ ~touchDevice
    /\ pointerLock' = ~pointerLock
    /\ UNCHANGED <<genVars, gameVars, inputVars, ray,
                   stage, touchDevice, ongoingTouches, rendered, arrived>>

\* Lines 226-230: player.angle after a mousemove.
MouseLook(locked, mode, angle, movementX) ==
    IF locked /\ mode = "first" THEN angle + movementX * LookTurn ELSE angle

\* The mouse movements tried: a quarter turn to the left or to the right.
LookDeltas == {-1, 1}

\* Lines 225-231: the mousemove handler, registered on a desktop only.
OnMouseMove ==
    /\ pc = "ready"
    /\ ~touchDevice
    /\ \E movementX \in LookDeltas :
        LET angle == MouseLook(pointerLock, viewMode, player.angle, movementX)
        IN  /\ angle \in LookRange
            /\ player' = [player EXCEPT !.angle = angle]
    /\ UNCHANGED <<genVars, grid, exitX, exitY, inputVars, ray,
                   stage, pointerLock, touchDevice, ongoingTouches, rendered, arrived>>

\* window.innerWidth in the units of clientX, and the threshold of 20
\* pixels of line 246 in those of a pixel.
innerWidth == 2
LookPixels == 314
threshold == 20
ClientXs == 0 .. innerWidth - 1

\* The identifiers of the touches followed.
TouchIds == {0}

\* Lines 236-257: updateTouchMovement(), the touches keeping their clientY.
updateTouchMovement(k, touches) ==
    LET moves == {id \in DOMAIN touches : touches[id].type = "move"}
        dx(id) == (touches[id].lastX - touches[id].startX) * LookPixels
    IN  [k EXCEPT !.forward = \E id \in moves : 0 < -threshold,
                  !.backward = \E id \in moves : 0 > threshold,
                  !.strafeLeft = \E id \in moves : dx(id) < -threshold,
                  !.strafeRight = \E id \in moves : dx(id) > threshold]

\* Lines 259-270: touchstart; the left half of the screen moves, the right
\* half looks.
OnTouchStart ==
    /\ pc = "ready"
    /\ touchDevice
    /\ \E id \in TouchIds \ DOMAIN ongoingTouches, clientX \in ClientXs :
        ongoingTouches' =
            ongoingTouches @@
                (id :> [startX |-> clientX, lastX |-> clientX,
                        type |-> IF 2 * clientX < innerWidth THEN "move" ELSE "look"])
    /\ UNCHANGED <<genVars, gameVars, inputVars, ray,
                   stage, pointerLock, touchDevice, rendered, arrived>>

\* Lines 280-286: player.angle after a touch of type look has moved by dx.
TouchLook(mode, angle, dx) == IF mode = "first" THEN angle + dx * LookTurn ELSE angle

\* Lines 271-292: touchmove.
OnTouchMove ==
    /\ pc = "ready"
    /\ touchDevice
    /\ \E id \in DOMAIN ongoingTouches, clientX \in ClientXs :
        LET info == ongoingTouches[id]
            angle == IF info.type = "look"
                     THEN TouchLook(viewMode, player.angle, clientX - info.lastX)
                     ELSE player.angle
            touches == [ongoingTouches EXCEPT ![id].lastX = clientX]
        IN  /\ angle \in LookRange
            /\ player' = [player EXCEPT !.angle = angle]
            /\ ongoingTouches' = touches
            /\ keys' = updateTouchMovement(keys, touches)
    /\ UNCHANGED <<genVars, grid, exitX, exitY, viewMode, timers, ray,
                   stage, pointerLock, touchDevice, rendered, arrived>>

\* Lines 293-305: touchend and touchcancel.
OnTouchEnd ==
    /\ pc = "ready"
    /\ touchDevice
    /\ \E id \in DOMAIN ongoingTouches :
        LET touches == [i \in DOMAIN ongoingTouches \ {id} |-> ongoingTouches[i]]
        IN  /\ ongoingTouches' = touches
            /\ keys' = updateTouchMovement(keys, touches)
    /\ UNCHANGED <<genVars, gameVars, viewMode, timers, ray,
                   stage, pointerLock, touchDevice, rendered, arrived>>

\* The keys pressed while the views are tried: forward and the map key.
LookCodes == {"KeyW", "KeyM"}
OnLookKeyDown == KeyDownEvent(LookCodes)
OnLookKeyUp == KeyUpEvent(LookCodes)

NextLook ==
    \/ Frame \/ OnLookKeyDown \/ OnLookKeyUp
    \/ PointerLockChange \/ OnMouseMove
    \/ OnTouchStart \/ OnTouchMove \/ OnTouchEnd

SpecLook == InitLoop /\ [][NextLook]_vars

(***************************************************************************)
(* The lattice as a graph.                                                 *)
(***************************************************************************)
Cells == (0 .. width - 1) \X (0 .. height - 1)

\* The boundaries between adjacent cells, each named by its west or north
\* cell and the direction of the other.
Boundaries ==
    {b \in Cells \X {"east", "south"} :
        <<NeighbourX(b[1][1], b[2]), NeighbourY(b[1][2], b[2])>> \in Cells}

Other(b) == <<NeighbourX(b[1][1], b[2]), NeighbourY(b[1][2], b[2])>>

\* The wall flag of the boundary on its first cell's side, and on the other.
NearFlag(b) == maze[b[1][2]][b[1][1]].walls[b[2]]
FarFlag(b) == maze[Other(b)[2]][Other(b)[1]].walls[Opposite(b[2])]

Opened(b) == ~NearFlag(b) \/ ~FarFlag(b)

Linked(c, d) == \E b \in Boundaries : Opened(b) /\ {c, d} = {b[1], Other(b)}

RECURSIVE ReachFrom(_)
ReachFrom(S) ==
    LET T == S \cup {d \in Cells : \E c \in S : Linked(c, d)}
    IN  IF T = S THEN S ELSE ReachFrom(T)

Generated == pc \in {"returned", "ready"}

(***************************************************************************)
(* C1: for width, height >= 1 and every outcome of the shuffles, the       *)
(* lattice generateMaze returns has exactly width * height - 1 opened      *)
(* boundaries and every cell reaches every other through opened            *)
(* boundaries.                                                             *)
(***************************************************************************)
C1_PerfectMaze ==
    (Generated /\ width >= 1 /\ height >= 1) =>
        /\ Cardinality({b \in Boundaries : Opened(b)}) = width * height - 1
        /\ \A c \in Cells : ReachFrom({c}) = Cells

\* A 2 x 2 lattice, where a fourth opened boundary would close a cycle.
C1_Witness ==
    /\ pc = "returned" /\ width = 2 /\ height = 2
    /\ ~maze[0][0].walls.south

(***************************************************************************)
(* C2: after every carve step and in the returned lattice, the wall flags  *)
(* on the two sides of every boundary between adjacent cells are equal.    *)
(***************************************************************************)
C2_WallConsistency ==
    (pc \in {"call", "loop", "returned", "ready"} /\ width >= 1 /\ height >= 1) =>
        \A b \in Boundaries : NearFlag(b) = FarFlag(b)

\* A carve step has just cleared a wall between two cells.
C2_Witness ==
    /\ pc = "call" /\ arg = <<1, 1>>
    /\ \E b \in Boundaries : ~NearFlag(b) /\ ~FarFlag(b)

(***************************************************************************)
(* C3: the grid built from a generated lattice has 2H+1 rows of 2W+1       *)
(* tiles; the tiles at odd row and odd column are OPEN, the tile between   *)
(* two adjacent interior tiles is OPEN exactly when the wall flag between  *)
(* the two cells is absent, and every other tile is WALL.                  *)
(***************************************************************************)
\* The boundary whose tile is (gx, gy), if there is one.
BoundaryAt(gx, gy) ==
    {b \in Boundaries :
        /\ gx = 2 * b[1][1] + 1 + (IF b[2] = "east" THEN 1 ELSE 0)
        /\ gy = 2 * b[1][2] + 1 + (IF b[2] = "south" THEN 1 ELSE 0)}

C3_GridMatchesLattice ==
    pc = "ready" =>
        /\ DOMAIN grid = 0 .. 2 * height
        /\ \A gy \in DOMAIN grid :
            /\ DOMAIN grid[gy] = 0 .. 2 * width
            /\ \A gx \in DOMAIN grid[gy] :
                IF gx % 2 = 1 /\ gy % 2 = 1
                THEN grid[gy][gx] = OPEN
                ELSE IF BoundaryAt(gx, gy) # {}
                THEN \A b \in BoundaryAt(gx, gy) :
                        /\ (grid[gy][gx] = OPEN) <=> ~NearFlag(b)
                        /\ (grid[gy][gx] = OPEN) <=> ~FarFlag(b)
                ELSE grid[gy][gx] = WALL

\* A grid with an opened and a closed boundary tile.
C3_Witness ==
    /\ pc = "ready" /\ width = 2 /\ height = 2
    /\ grid[1][2] = OPEN /\ grid[2][1] = WALL

(***************************************************************************)
(* C4: in every grid built from a generated lattice, every tile of row 0,  *)
(* of the last row, of column 0 and of the last column is WALL.            *)
(***************************************************************************)
C4_BorderIsWall ==
    pc = "ready" =>
        \A gy \in DOMAIN grid : \A gx \in DOMAIN grid[gy] :
            (gy = 0 \/ gy = Length(grid) - 1 \/ gx = 0 \/ gx = Length(grid[gy]) - 1)
                => grid[gy][gx] = WALL

\* A grid whose cells next to the border have been carved.
C4_Witness ==
    /\ pc = "ready" /\ width = 2 /\ height = 2
    /\ grid[3][2] = OPEN /\ grid[0][1] = WALL /\ grid[4][3] = WALL

(***************************************************************************)
(* castRay's origin and the tiles its ray occupies.                        *)
(***************************************************************************)
InMap(x, y) == ~OutsideMap(grid, x, y)

OriginInside == InMap(Floor(ray.posX), Floor(ray.posY))

Casting == ray.rpc \in {"loop", "done"}

\* The origin's tile and the OPEN tiles stepped into.
Occupied ==
    {<<Floor(ray.posX), Floor(ray.posY)>>}
        \cup {ray.path[i] : i \in {j \in DOMAIN ray.path :
                                     /\ InMap(ray.path[j][1], ray.path[j][2])
                                     /\ grid[ray.path[j][2]][ray.path[j][1]] = OPEN}}

(***************************************************************************)
(* C5: for an origin inside the grid and any direction, axis-aligned ones  *)
(* included, castRay's loop ends within gridWidth + gridHeight iterations, *)
(* with a hit or with the infinite-distance result.                        *)
(***************************************************************************)
C5_RayTerminates ==
    (Casting /\ OriginInside) =>
        /\ ray.steps <= Length(grid[0]) + Length(grid)
        /\ ray.rpc = "loop" => ray.steps < Length(grid[0]) + Length(grid)
        /\ ray.rpc = "done" => (ray.hit \/ ray.result.dist = Infinity)

\* An axis-aligned ray has run several iterations and hit a wall.
C5_Witness ==
    /\ ray.rpc = "done" /\ OriginInside /\ ray.hit
    /\ ray.rayDirY = 0 /\ ray.steps >= 3

(***************************************************************************)
(* C6: for an origin inside a generated grid, a reported hit has a         *)
(* distance >= 0, and the infinite distance is returned only when the ray  *)
(* has stepped outside the grid without having stepped into a WALL tile.   *)
(***************************************************************************)
C6_HitDistance ==
    (ray.rpc = "done" /\ OriginInside) =>
        /\ ray.hit => (~ray.result.dist.inf /\ ray.result.dist.val >= 0)
        /\ ray.result.dist.inf =>
            /\ ~ray.hit
            /\ OutsideMap(grid, ray.mapX, ray.mapY)
            /\ \A i \in 1 .. Len(ray.path) - 1 :
                grid[ray.path[i][2]][ray.path[i][1]] = OPEN

\* A ray heading west or north has hit a wall at a positive distance.
C6_Witness ==
    /\ ray.rpc = "done" /\ OriginInside /\ ray.hit
    /\ ray.stepX = -1 /\ ray.side = 0 /\ ray.result.dist.val > 0

\* A ray from a border tile has left the grid.
C6_WitnessInfinite ==
    ray.rpc = "done" /\ OriginInside /\ ray.result.dist.inf

(***************************************************************************)
(* C7: in a generated grid, castRay returns startSeen = true whenever the  *)
(* tiles its ray occupies (the origin's and those stepped into before the  *)
(* first WALL tile) include the start tile (1,1); it returns both flags    *)
(* false whenever they include neither the start nor the exit tile; and    *)
(* during the loop a flag is set exactly when its tile has been occupied,  *)
(* so it is never cleared.                                                 *)
(***************************************************************************)
C7_LandmarkFlags ==
    Casting =>
        /\ ray.rpc = "loop" =>
            /\ ray.startSeen <=> <<startGridX, startGridY>> \in Occupied
            /\ ray.exitSeenFlag <=> <<exitX, exitY>> \in Occupied
        /\ ray.rpc = "done" =>
            /\ <<startGridX, startGridY>> \in Occupied => ray.result.startSeen
            /\ (<<startGridX, startGridY>> \notin Occupied /\ <<exitX, exitY>> \notin Occupied)
                => (~ray.result.startSeen /\ ~ray.result.exitSeen)

\* A ray has passed through the start tile, then other tiles, and hit.
C7_Witness ==
    /\ ray.rpc = "done" /\ ray.hit /\ ray.result.startSeen
    /\ Floor(ray.posX) # startGridX
    /\ \E i \in 1 .. Len(ray.path) - 2 : ray.path[i] = <<startGridX, startGridY>>

(***************************************************************************)
(* C8: castRay called with an origin whose tile is outside the grid        *)
(* returns the infinite-distance result, no landmark seen, for every       *)
(* direction.                                                              *)
(***************************************************************************)
C8_OutsideOriginInfinite ==
    (ray.rpc = "done" /\ ~OriginInside) =>
        /\ ray.result.dist = Infinity
        /\ ~ray.result.startSeen
        /\ ~ray.result.exitSeen

(***************************************************************************)
(* C9: generateMaze called with width <= 0 or height <= 0 raises an error: *)
(* it never runs carve's loop, never returns a lattice, and no grid is     *)
(* built.                                                                  *)
(***************************************************************************)
C9_InvalidDimensionsThrow ==
    (width <= 0 \/ height <= 0) =>
        /\ pc \in {"start", "call", "threw"}
        /\ stack = <<>>
        /\ grid = NoGrid

\* The call with width 0 and height 2 has thrown.
C9_Witness == pc = "threw" /\ width = 0 /\ height = 2

(***************************************************************************)
(* C10: isWall returns true, and does not throw, for every coordinate      *)
(* whose tile is outside the grid; and after any sequence of update ticks, *)
(* whatever the keys, the heading and the frame delta, the player's tile   *)
(* is inside the grid.                                                     *)
(***************************************************************************)
\* The points update(delta) asks isWall about from the current state.
WallQueries(delta) ==
    LET n == NewPose(player, keys, delta)
    IN  {HorizontalQuery(player, n)}
            \cup {VerticalQuery(x1, n) : x1 \in {player.x, n.x}}

C10_PlayerStaysInside ==
    pc = "ready" =>
        /\ InMap(Floor(player.x), Floor(player.y))
        /\ \A delta \in 0 .. MaxDelta : \A q \in WallQueries(delta) :
            OutsideMap(grid, q.x \div FineUnit, q.y \div FineUnit)
                => isWall(grid, q.x, q.y) = [threw |-> FALSE, value |-> TRUE]

\* The player has backed into the margin of a border tile: the tile checked
\* was open, the player's own tile is on the border.
C10_Witness ==
    /\ pc = "ready"
    /\ Floor(player.x) = 0 \/ Floor(player.y) = 0
    /\ \E delta \in 0 .. MaxDelta : \E q \in WallQueries(delta) :
        OutsideMap(grid, q.x \div FineUnit, q.y \div FineUnit)


(***************************************************************************)
(* The game's names for the sizes of the maze of the stage.                *)
(***************************************************************************)
mazeWidth == width
mazeHeight == height

\* The tile the player stands in.
PlayerTile == <<Floor(player.x), Floor(player.y)>>

(***************************************************************************)
(* C11: once initGame has run, in every state a frame tick or an input     *)
(* handler starts from, mazeWidth = mazeHeight = 8 + 2 * (stage - 1), the  *)
(* grid has 2 * mazeHeight + 1 rows of 2 * mazeWidth + 1 tiles, and the    *)
(* exit is (2 * mazeWidth - 1, 2 * mazeHeight - 1).                        *)
(***************************************************************************)
C11_StageSize ==
    pc = "ready" =>
        /\ mazeWidth = 8 + 2 * (stage - 1)
        /\ mazeHeight = 8 + 2 * (stage - 1)
        /\ Length(grid) = 2 * mazeHeight + 1
        /\ \A gy \in DOMAIN grid : Length(grid[gy]) = 2 * mazeWidth + 1
        /\ exitX = 2 * mazeWidth - 1
        /\ exitY = 2 * mazeHeight - 1

\* The second stage has begun: a maze of 10 x 10 cells on 21 x 21 tiles.
C11_Witness ==
    /\ stage = 2 /\ pc = "ready"
    /\ mazeWidth = 10 /\ Length(grid) = 21 /\ exitX = 19

(***************************************************************************)
(* C12: every step that changes the stage (initGame run from the timer     *)
(* callback) leaves the pose at x = 1.5, y = 1.5, angle = 0 whatever it    *)
(* was, and a new grid and an exit of the size of the new stage;           *)
(* no other step changes the grid or the exit, so that a frame tick finds  *)
(* the grid, the exit and the pose of one stage.                           *)
(***************************************************************************)
C12_TransitionResets ==
    [][/\ stage' # stage =>
            /\ player' = [x |-> 24, y |-> 24, angle |-> 0]
            /\ grid' # grid
            /\ Length(grid') = 2 * mazeSize(stage') + 1
            /\ \A gy \in DOMAIN grid' : Length(grid'[gy]) = 2 * mazeSize(stage') + 1
            /\ exitX' = Length(grid'[0]) - 2
            /\ exitY' = Length(grid') - 2
       /\ stage' = stage => UNCHANGED <<grid, exitX, exitY>>]_vars

\* The second stage has begun from the exit of the first, a key held down
\* and a second callback pending.
C12_Witness ==
    /\ stage = 2 /\ timers = 1 /\ keys.forward
    /\ player = [x |-> 24, y |-> 24, angle |-> 0]
    /\ Length(grid) = 21

(***************************************************************************)
(* C13: the view mode is always 'first' or 'map'; a step that changes it   *)
(* (a KeyM press) flips it and changes none of the stage, the grid, the    *)
(* exit, the pose and the key flags; and a render in map view makes no     *)
(* call of castRay.                                                        *)
(***************************************************************************)
C13_ViewMode ==
    /\ [](/\ viewMode \in {"first", "map"}
          /\ rendered.mode = "map" => rendered.castRay = 0
          /\ rendered.mode = "first" => rendered.castRay = canvasWidth)
    /\ [][viewMode' # viewMode =>
            /\ {viewMode, viewMode'} = {"first", "map"}
            /\ UNCHANGED <<stage, grid, exitX, exitY, player, keys>>]_vars

\* A frame has been rendered in map view, away from the start and with a
\* key held down.
C13_Witness ==
    /\ viewMode = "map" /\ rendered.mode = "map"
    /\ keys.forward /\ PlayerTile # <<startGridX, startGridY>>

(***************************************************************************)
(* C14: after any sequence of update ticks in first-person view, the tile  *)
(* the player stands in, (floor(x), floor(y)), is not a WALL tile.         *)
(***************************************************************************)
C14_NeverInWall ==
    pc = "ready" => grid[Floor(player.y)][Floor(player.x)] # WALL

(***************************************************************************)
(* C15: under every interleaving of frame ticks and timer callbacks, the   *)
(* stage transitions made and pending are as many as the arrivals of the   *)
(* player at the exit tile: one arrival, one increment of the stage, one   *)
(* initGame.                                                               *)
(***************************************************************************)
C15_OneTransitionPerArrival == (stage - 1) + timers = arrived

(***************************************************************************)
(* C16: the pose is assigned by the update of a frame tick only: every     *)
(* step that changes the pose is a frame tick, so that no mouse, touch or  *)
(* timer handler changes it between two renders.                           *)
(***************************************************************************)
C16_PoseChangesInFrameOnly == [][player' # player => Frame]_vars

(***************************************************************************)
(* C17: at the end of every frame tick, where render reads the pose,       *)
(* player.angle is in [0, 2 pi).                                           *)
(***************************************************************************)
C17_AngleNormalised == [][Frame => player'.angle \in 0 .. TurnUnits - 1]_vars

(***************************************************************************)
(* C18: for width, height >= 1 and every outcome of the shuffles,          *)
(* generateMaze terminates; carve is entered for a cell only while the     *)
(* cell is not visited, and every cell is visited when generateMaze        *)
(* returns, so carve is entered exactly once for each cell; the depth of   *)
(* the recursion never exceeds width * height; and the grid of the 1 x 1   *)
(* lattice is 3 x 3 with its centre tile alone OPEN.                       *)
(***************************************************************************)
SpecTerm == Init /\ [][NextGen]_vars /\ WF_vars(NextGen)

Valid == width >= 1 /\ height >= 1

C18_GenerationTerminates ==
    /\ Valid => <>(pc = "ready")
    /\ [][(pc = "call" /\ pc' = "loop") => ~maze[arg[2]][arg[1]].visited]_vars
    /\ [](Valid =>
            /\ Len(stack) <= width * height
            /\ Generated => \A c \in Cells : maze[c[2]][c[1]].visited
            /\ (pc = "ready" /\ width = 1 /\ height = 1) =>
                grid = [y \in 0 .. 2 |-> [x \in 0 .. 2 |->
                            IF x = 1 /\ y = 1 THEN OPEN ELSE WALL]])

\* A 2 x 2 lattice has been generated with the recursion four calls deep.
C18_Witness ==
    /\ width = 2 /\ height = 2 /\ pc = "loop" /\ Len(stack) = 4

(***************************************************************************)
(* C19: every iteration of castRay's loop changes exactly one of mapX and  *)
(* mapY, by one, in the step direction of the ray; when a hit is reported  *)
(* the tile hit is a WALL tile, every tile stepped into before it is in    *)
(* bounds and OPEN, and the side returned is the axis of the last step     *)
(* (0 for a step along X, 1 for a step along Y).                           *)
(***************************************************************************)
\* The tiles of the ray: the origin's, then those stepped into.
Tiles == <<<<Floor(ray.posX), Floor(ray.posY)>>>> \o ray.path

C19_FirstWallOnPath ==
    Casting =>
        /\ \A i \in 1 .. Len(ray.path) :
            \/ /\ Tiles[i + 1][1] = Tiles[i][1] + ray.stepX
               /\ Tiles[i + 1][2] = Tiles[i][2]
            \/ /\ Tiles[i + 1][1] = Tiles[i][1]
               /\ Tiles[i + 1][2] = Tiles[i][2] + ray.stepY
        /\ ray.hit =>
            LET n == Len(ray.path)
            IN  /\ n >= 1
                /\ InMap(ray.path[n][1], ray.path[n][2])
                /\ grid[ray.path[n][2]][ray.path[n][1]] = WALL
                /\ \A i \in 1 .. n - 1 :
                    /\ InMap(ray.path[i][1], ray.path[i][2])
                    /\ grid[ray.path[i][2]][ray.path[i][1]] = OPEN
                /\ ray.result.side = (IF Tiles[n + 1][1] # Tiles[n][1] THEN 0 ELSE 1)

\* A diagonal ray has stepped along both axes through open tiles and hit a
\* wall on a step along Y.
C19_Witness ==
    /\ ray.rpc = "done" /\ ray.hit /\ ray.result.side = 1
    /\ Len(ray.path) >= 3
    /\ \E i \in 1 .. Len(ray.path) : Tiles[i + 1][1] # Tiles[i][1]

(***************************************************************************)
(* C20: while the view mode is 'map', no frame tick, mouse move or touch   *)
(* move changes the pose or schedules a stage transition, whatever keys    *)
(* are held and even when the player stands in the exit tile.              *)
(***************************************************************************)
C20_MapViewFreezes ==
    [][viewMode = "map" => (player' = player /\ timers' = timers)]_vars

\* A frame has been rendered in map view with the player in the exit tile,
\* the forward key held and the pointer locked.
C20_Witness ==
    /\ viewMode = "map" /\ rendered.mode = "map"
    /\ AtExit(player, exitX, exitY)
    /\ keys.forward /\ pointerLock

(***************************************************************************)
(* C21: in every stage, once initGame has run, the start tile (1, 1) and   *)
(* the exit tile (2 * mazeWidth - 1, 2 * mazeHeight - 1) are inside the    *)
(* grid and OPEN, and the exit tile is joined to the start tile by a path  *)
(* of OPEN tiles, each next to the one before along a row or a column.     *)
(***************************************************************************)
\* Tile t = <<x, y>> is inside grid g and OPEN.
OpenTile(g, t) ==
    /\ t[2] \in DOMAIN g
    /\ t[1] \in DOMAIN g[t[2]]
    /\ g[t[2]][t[1]] = OPEN

\* The four tiles next to t along its row and its column.
Beside(t) ==
    {<<t[1] + 1, t[2]>>, <<t[1] - 1, t[2]>>, <<t[1], t[2] + 1>>, <<t[1], t[2] - 1>>}

\* One more step of a walk over OPEN tiles: r.seen are the tiles reached,
\* r.frontier those reached by the last step.
WalkStep(g, r) ==
    LET found == {t \in UNION {Beside(f) : f \in r.frontier} : OpenTile(g, t)} \ r.seen
    IN  [seen |-> r.seen \cup found, frontier |-> found]

\* Up to n steps of the walk, until a step reaches no new tile; made half
\* by half, the tiles reached by the first half being a value before the
\* second half is begun.
RECURSIVE WalkSteps(_, _, _)
WalkSteps(g, r, n) ==
    IF n = 0 \/ r.frontier = {}
    THEN r
    ELSE IF n = 1
    THEN WalkStep(g, r)
    ELSE CHOOSE done \in {WalkSteps(g, half, n - n \div 2) :
                              half \in {WalkSteps(g, r, n \div 2)}} : TRUE

\* The tiles joined to tile from by a path of OPEN tiles of g: a path
\* visits no tile twice, so it has fewer steps than g has tiles.
ReachableFrom(g, from) ==
    IF OpenTile(g, from)
    THEN WalkSteps(g, [seen |-> {from}, frontier |-> {from}],
                   Length(g) * Length(g[0])).seen
    ELSE {}

C21_StageWinnable ==
    pc = "ready" =>
        /\ OpenTile(grid, <<startGridX, startGridY>>)
        /\ OpenTile(grid, <<2 * mazeWidth - 1, 2 * mazeHeight - 1>>)
        /\ <<2 * mazeWidth - 1, 2 * mazeHeight - 1>>
                \in ReachableFrom(grid, <<startGridX, startGridY>>)

\* The second stage has begun and its exit (19, 19) is joined to its
\* start, in a maze with a wall in the start's row and in its column: the
\* path turns inside the maze.
C21_Witness ==
    /\ stage = 2 /\ pc = "ready"
    /\ exitX = 19 /\ exitY = 19
    /\ <<exitX, exitY>> \in ReachableFrom(grid, <<startGridX, startGridY>>)
    /\ \E x \in 1 .. 19 : grid[1][x] = WALL
    /\ \E y \in 1 .. 19 : grid[y][1] = WALL
====
